---- MODULE Spec2Model ----
(***************************************************************************)
(* FusionSDF: the kinematic tree builder (fusionsdf/sdf.py), the name      *)
(* normalisation (fusionsdf/util.py), the joint and pose records           *)
(* (fusionsdf/joint.py, fusionsdf/pose.py) and the tree emission.          *)
(*                                                                         *)
(* A name is a sequence of one-character strings.  A CAD design is a       *)
(* record of occurrences, rigid groups and joints; the build walks it as   *)
(* parse_root_component does, one call of add_rigid_group, add_link,       *)
(* add_joint per step.                                                     *)
(***************************************************************************)
EXTENDS Integers, Sequences, FiniteSets, TLC

VARIABLES design, attrs, links, joints, fusion_joints,
          occurrences_in_rigid_groups, root_link, root_links,
          rigid_group_link, todo, pc, out, builds, prev_root,
          this_pose, node, this_transform, this_link

buildVars == <<design, attrs, links, joints, fusion_joints,
               occurrences_in_rigid_groups, root_link, root_links,
               rigid_group_link, todo, pc, out, builds, prev_root>>
poseVars == <<this_pose, node, this_transform, this_link>>
vars == <<buildVars, poseVars>>

----------------------------------------------------------------------------
(* Bounds of the explored CAD designs *)

MaxJoints == 2
MaxBuilds == 2

----------------------------------------------------------------------------
(* Names *)

\* Python's None, distinct from every name (its element is no character)
None == <<"None">>

Uppers == <<"A","B","C","D","E","F","G","H","I","J","K","L","M",
            "N","O","P","Q","R","S","T","U","V","W","X","Y","Z">>
Lowers == <<"a","b","c","d","e","f","g","h","i","j","k","l","m",
            "n","o","p","q","r","s","t","u","v","w","x","y","z">>
Digits == {"0","1","2","3","4","5","6","7","8","9"}

\* str.lower() on one character
lower(c) ==
    IF \E i \in 1..Len(Uppers) : Uppers[i] = c
    THEN Lowers[CHOOSE i \in 1..Len(Uppers) : Uppers[i] = c]
    ELSE c

\* the characters the pattern [^a-z0-9_] does not match
Kept == {Lowers[i] : i \in 1..Len(Lowers)} \cup Digits \cup {"_"}

\* re.sub(r'[^a-z0-9_]+', '_', s): every maximal run of other characters
\* becomes one underscore
RECURSIVE sub_runs(_, _)
sub_runs(s, in_run) ==
    IF s = <<>> THEN <<>>
    ELSE IF Head(s) \in Kept THEN <<Head(s)>> \o sub_runs(Tail(s), FALSE)
    ELSE IF in_run THEN sub_runs(Tail(s), TRUE)
    ELSE <<"_">> \o sub_runs(Tail(s), TRUE)

RECURSIVE lstrip(_)
lstrip(s) ==
    IF s # <<>> /\ Head(s) = "_" THEN lstrip(Tail(s)) ELSE s

RECURSIVE rstrip(_)
rstrip(s) ==
    IF s # <<>> /\ s[Len(s)] = "_" THEN rstrip(SubSeq(s, 1, Len(s) - 1)) ELSE s

normalize_name(name) ==
    LET lowered == [i \in 1..Len(name) |-> lower(name[i])]
        replaced == sub_runs(lowered, FALSE)
    IN  rstrip(lstrip(replaced))

BaseLink == <<"b","a","s","e","_","l","i","n","k">>
BaseLinkJoint == BaseLink \o <<"_","j","o","i","n","t">>

----------------------------------------------------------------------------
(* Python dicts keep insertion order; assigning to a present key replaces  *)
(* the value in place.  A dict is a sequence of <<key, value>> pairs.      *)

Keys(d) == {d[i][1] : i \in DOMAIN d}
Get(d, k) == d[CHOOSE i \in DOMAIN d : d[i][1] = k][2]
Put(d, k, v) ==
    IF k \in Keys(d)
    THEN [i \in DOMAIN d |-> IF d[i][1] = k THEN <<k, v>> ELSE d[i]]
    ELSE Append(d, <<k, v>>)
Values(d) == [i \in DOMAIN d |-> d[i][2]]

\* the numbers of a set, ascending
RECURSIVE Ascending(_)
Ascending(S) ==
    IF S = {} THEN <<>>
    ELSE LET m == CHOOSE x \in S : \A y \in S : x <= y
         IN  <<m>> \o Ascending(S \ {m})

----------------------------------------------------------------------------
(* The CAD design read through adsk: occurrences (name, parent, number of  *)
(* bodies), rigid groups (name, owning component, members), joints.        *)
(* Occurrence 0 stands for the root component.  An occurrence is named     *)
(* after its component with the instance counter appended ("Arm:1").       *)

\* the occurrences a design may hold, in browser order
OccNameList ==
    << <<"A","r","m",":","1">>,
       <<"b",":","1">>,
       <<"L","e","g"," ","2",":","1">> >>

\* the names of the rigid groups a design may declare, each at most once
GroupNames == { <<"B">> }

\* the names of the joints of a design, by position in the design
JointNameList ==
    << <<"R","e","v"," ","1">>, <<"S","l","i","d","e","r"," ","2">>,
       <<"r","e","v","_","1">> >>

\* the names a single joint is tried with
RichJointNames == { <<"R","e","v"," ","1">>, BaseLinkJoint, <<"#">> }

\* number of bodies of an occurrence
BodyCounts == {0, 1}

JointTypes == {"RigidJointType", "RevoluteJointType", "SliderJointType",
               "BallJointType"}

\* children of component p (0: the root component), in browser order
Children(d, p) == Ascending({o \in 1..Len(d.occ) : d.occ[o].parent = p})

RECURSIVE IsUnder(_, _, _)
IsUnder(d, o, a) ==
    \/ a = 0
    \/ /\ o # 0
       /\ \/ d.occ[o].parent = a
          \/ IsUnder(d, d.occ[o].parent, a)

GroupsOf(d, p) == Ascending({g \in 1..Len(d.groups) : d.groups[g].owner = p})
JointsOf(d, p, as_built) ==
    Ascending({j \in 1..Len(d.joints) :
                 d.joints[j].owner = p /\ d.joints[j].as_built = as_built})

SeqsUpTo(S, n) == UNION {[1..k -> S] : k \in 0..n}

\* the first occurrences lie in the root component, the others in the
\* component of occurrence 1
OccTrees ==
    UNION { { occ \in [1..n -> [name : {<<>>}, parent : 0..1, bodies : BodyCounts]] :
                /\ \A o \in 1..n : occ[o].parent < o
                /\ \A o \in 2..n : occ[o - 1].parent <= occ[o].parent }
            : n \in 0..Len(OccNameList) }

NamedOcc(occ) == [o \in DOMAIN occ |-> [occ[o] EXCEPT !.name = OccNameList[o]]]

\* a rigid group joins occurrences of the component that declares it
GroupChoices(d) ==
    { g \in [name : GroupNames, owner : 0..Len(d.occ),
             members : SUBSET (1..Len(d.occ))] :
        /\ g.members # {}
        /\ \A m \in g.members : d.occ[m].parent = g.owner }

GroupLists(d) ==
    { gs \in SeqsUpTo(GroupChoices(d), Cardinality(GroupNames)) :
        \A i, k \in DOMAIN gs : i # k => gs[i].name # gs[k].name }

\* what the joint motion of a CAD joint offers to add_joint; limits exist
\* for a revolute motion only
Motions ==
    { m \in [jointType : JointTypes, isMinimumValueEnabled : BOOLEAN,
             isMaximumValueEnabled : BOOLEAN] :
        m.jointType # "RevoluteJointType" =>
            ~m.isMinimumValueEnabled /\ ~m.isMaximumValueEnabled }

RigidMotion ==
    [jointType |-> "RigidJointType", isMinimumValueEnabled |-> FALSE,
     isMaximumValueEnabled |-> FALSE]

\* a joint of component `owner` joins two occurrences below that component;
\* an as-built joint always has a geometry
JointChoices(d, names, motions, flags) ==
    { j \in [name : names, owner : 0..Len(d.occ),
             occurrenceOne : 1..Len(d.occ), occurrenceTwo : 1..Len(d.occ),
             as_built : flags, swap : flags,
             has_origin : IF flags = {FALSE} THEN {TRUE} ELSE BOOLEAN,
             motion : motions] :
        /\ j.occurrenceOne # j.occurrenceTwo
        /\ IsUnder(d, j.occurrenceOne, j.owner)
        /\ IsUnder(d, j.occurrenceTwo, j.owner)
        /\ (j.as_built => j.has_origin) }

\* the joints of a design are listed by their ends, then owner
JointRank(j) == (j.occurrenceOne * 10 + j.occurrenceTwo) * 10 + j.owner

JointLists(d) ==
    { js \in SeqsUpTo(JointChoices(d, {<<>>}, {RigidMotion}, {FALSE}), MaxJoints) :
        \A i, k \in DOMAIN js : i < k => JointRank(js[i]) <= JointRank(js[k]) }

NamedJoints(js) ==
    [i \in DOMAIN js |-> [js[i] EXCEPT !.name = JointNameList[i]]]

\* designs of every shape, with rigid joints named by position
Designs ==
    UNION { UNION { { [occ |-> NamedOcc(t), groups |-> gs, joints |-> NamedJoints(js)] :
                        js \in JointLists([occ |-> t]) }
                    : gs \in GroupLists([occ |-> t]) }
            : t \in OccTrees }

\* designs of one shape (every occurrence with a body, the last two in the
\* component of the first) with one joint of any name, motion and flags
FullTree ==
    [o \in 1..Len(OccNameList) |->
        [name |-> <<>>, parent |-> IF o = 1 THEN 0 ELSE 1, bodies |-> 1]]

JointDesigns ==
    UNION { { [occ |-> NamedOcc(FullTree), groups |-> gs, joints |-> <<j>>] :
                j \in JointChoices([occ |-> FullTree], RichJointNames, Motions,
                                   BOOLEAN) }
            : gs \in GroupLists([occ |-> FullTree]) }

----------------------------------------------------------------------------
(* Records of the entity model *)

\* an absent number, vector or Pose (None); a present one is wrapped: <<v>>
Absent == <<>>

\* kind, id: the occurrence or rigid group the Link was made from
Link(name, kind, id, bodies) ==
    [name |-> name, kind |-> kind, id |-> id, bodies |-> bodies]

\* cad: the CAD joint the Joint was made from (0: none), kept for reference
Joint(name, joint_type, pose, parent, child, cad) ==
    [name |-> name, joint_type |-> joint_type, pose |-> pose,
     parent |-> parent, child |-> child,
     axis_xyz |-> Absent, lower_limit |-> Absent, upper_limit |-> Absent,
     cad |-> cad]

\* numbers are fixed point, in units of 1e-9
cm_to_m(cm) == cm \div 100
cm_to_m_list(cm) == [i \in DOMAIN cm |-> cm[i] \div 100]

\* what adsk reports for a joint: axis, limit values (always readable,
\* enabled or not), origin of the joint geometry in cm
rotationAxisVector == <<0, 0, 1>>
slideDirectionVector == <<1, 0, 0>>
rotationLimits == [minimumValue |-> 0 - 1000000000, maximumValue |-> 1500000000]
slideLimits == [minimumValue |-> 0 - 500000000, maximumValue |-> 2000000000]
jointOrigin == <<1000000000, 0, 500000000>>

ModelFrame == "__model__"
NoFrame == "<None>"
Pose(translation, rotation, relative_to) ==
    [translation |-> translation, rotation |-> rotation, relative_to |-> relative_to]

----------------------------------------------------------------------------
(* add_link *)

SetAttr(A, occ_id, link_name) ==
    \* the synthetic occurrence of a rigid group (id 0) is deleted after use
    IF occ_id = 0 THEN A ELSE [A EXCEPT ![occ_id] = link_name]

add_link(L, A, oirg, occ_name, occ_id, kind, kind_id, bodies, prefix) ==
    LET link_name == prefix \o normalize_name(occ_name)
    IN  IF link_name \in Keys(L)
        THEN [links |-> L, attrs |-> A, link |-> None]
        ELSE IF occ_name \in Keys(oirg)
        THEN [links |-> L, attrs |-> SetAttr(A, occ_id, Get(oirg, occ_name)),
              link |-> None]
        ELSE IF bodies = 0
        THEN [links |-> L, attrs |-> SetAttr(A, occ_id, link_name), link |-> None]
        ELSE [links |-> Put(L, link_name, Link(link_name, kind, kind_id, bodies)),
              attrs |-> SetAttr(A, occ_id, link_name),
              link |-> link_name]

----------------------------------------------------------------------------
(* add_rigid_group *)

RECURSIVE SumBodies(_, _)
SumBodies(d, ms) ==
    IF ms = <<>> THEN 0 ELSE d.occ[Head(ms)].bodies + SumBodies(d, Tail(ms))

RECURSIVE PutAll(_, _, _, _)
PutAll(dict, d, ms, v) ==
    IF ms = <<>> THEN dict
    ELSE PutAll(Put(dict, d.occ[Head(ms)].name, v), d, Tail(ms), v)

add_rigid_group(d, L, A, oirg, g, prefix) ==
    LET group == d.groups[g]
        link_name == prefix \o normalize_name(group.name)
        \* the new component is named link_name; its occurrence gets ":1"
        occ_name == link_name \o <<":", "1">>
        members == Ascending(group.members)
        r == add_link(L, A, oirg, occ_name, 0, "rigid_group", g,
                      SumBodies(d, members), <<>>)
    IN  [links |-> r.links, attrs |-> r.attrs, link |-> r.link,
         oirg |-> PutAll(oirg, d, members, link_name \o <<"_", "1">>)]

----------------------------------------------------------------------------
(* add_joint *)

JointTypeOf(jointType) ==
    CASE jointType = "RigidJointType" -> "fixed"
      [] jointType = "RevoluteJointType" -> "revolute"
      [] jointType = "SliderJointType" -> "prismatic"
      [] OTHER -> "fixed"

\* lines 208-220: type, axis and limits from the joint motion
WithMotion(joint, motion) ==
    IF joint.joint_type = "revolute"
    THEN IF motion.isMinimumValueEnabled \/ motion.isMaximumValueEnabled
         THEN [joint EXCEPT !.axis_xyz = <<rotationAxisVector>>,
                            !.lower_limit = <<rotationLimits.minimumValue>>,
                            !.upper_limit = <<rotationLimits.maximumValue>>]
         ELSE [joint EXCEPT !.axis_xyz = <<rotationAxisVector>>,
                            !.joint_type = "continuous"]
    ELSE IF joint.joint_type = "prismatic"
    THEN [joint EXCEPT !.axis_xyz = <<slideDirectionVector>>,
                       !.lower_limit = <<cm_to_m(slideLimits.minimumValue)>>,
                       !.upper_limit = <<cm_to_m(slideLimits.maximumValue)>>]
    ELSE joint

\* lines 222-229: the link an end of the joint resolves to; None when the
\* occurrence carries no link_name attribute (itemByName gives None and
\* .value raises)
ResolveLink(d, A, oirg, o) ==
    IF d.occ[o].name \in Keys(oirg) THEN Get(oirg, d.occ[o].name) ELSE A[o]

\* lines 230-235
WithSwap(joint, swap) ==
    IF swap
    THEN [joint EXCEPT !.parent = joint.child, !.child = joint.parent,
                       !.axis_xyz = IF joint.axis_xyz = Absent THEN Absent
                                    ELSE <<[i \in 1..3 |-> 0 - joint.axis_xyz[1][i]]>>]
    ELSE joint

\* lines 236-241
WithOrigin(joint, has_origin) ==
    IF has_origin
    THEN [joint EXCEPT !.pose = <<Pose(cm_to_m_list(jointOrigin), <<0, 0, 0>>, ModelFrame)>>]
    ELSE joint

\* the joint add_joint stores for CAD joint j, both ends having resolved
NewJoint(d, A, oirg, j, joint_name) ==
    LET fj == d.joints[j]
        j0 == Joint(joint_name, JointTypeOf(fj.motion.jointType), Absent,
                    ResolveLink(d, A, oirg, fj.occurrenceTwo),
                    ResolveLink(d, A, oirg, fj.occurrenceOne), j)
    IN  WithOrigin(WithSwap(WithMotion(j0, fj.motion), fj.swap), fj.has_origin)

----------------------------------------------------------------------------
(* The build: SDF.__init__ and parse_root_component.  todo holds the calls *)
(* still to make, in the order the code makes them.                        *)

Task(op, id, prefix) == [op |-> op, id |-> id, prefix |-> prefix]
Tasks(op, ids, prefix) == [i \in DOMAIN ids |-> Task(op, ids[i], prefix)]

\* the occurrences of the root component are parsed before its rigid groups
RootTasks_OccurrencesFirst(d) ==
    Tasks("occurrence", Children(d, 0), <<>>)
    \o Tasks("rigid_group", GroupsOf(d, 0), <<>>)
    \o Tasks("joint", JointsOf(d, 0, FALSE), <<>>)
    \o Tasks("joint", JointsOf(d, 0, TRUE), <<>>)
    \o <<Task("fusion_joints", 0, <<>>), Task("select_root", 0, <<>>),
         Task("anchor", 0, <<>>)>>

\* lines 40-51 and 53-66 of parse_root_component
RootTasks(d) ==
    Tasks("rigid_group", GroupsOf(d, 0), <<>>)
    \o Tasks("occurrence", Children(d, 0), <<>>)
    \o Tasks("joint", JointsOf(d, 0, FALSE), <<>>)
    \o Tasks("joint", JointsOf(d, 0, TRUE), <<>>)
    \o <<Task("fusion_joints", 0, <<>>), Task("select_root", 0, <<>>),
         Task("anchor", 0, <<>>)>>

DefaultPose == Pose(<<0, 0, 0>>, <<0, 0, 0>>, ModelFrame)

\* the fields SDF.__init__ sets before parse_root_component runs
Constructed(d) ==
    /\ links = <<>>
    /\ joints = <<>>
    /\ fusion_joints = <<>>
    /\ occurrences_in_rigid_groups = <<>>
    /\ root_link = None
    /\ root_links = {}
    /\ rigid_group_link = None
    /\ todo = RootTasks(d)
    /\ pc = "build"
    /\ out = <<>>

InitDesign ==
    /\ attrs = [o \in 1..Len(design.occ) |-> None]
    /\ Constructed(design)
    /\ builds = 1
    /\ prev_root = None
    /\ this_pose = DefaultPose
    /\ node = <<>>
    /\ this_transform = <<>>
    /\ this_link = <<>>

Init ==
    /\ design \in Designs
    /\ InitDesign

InitJoint ==
    /\ design \in JointDesigns
    /\ InitDesign

Building(op) == pc = "build" /\ todo # <<>> /\ Head(todo).op = op

\* lines 40-41 and 77-78: one call of add_rigid_group
AddRigidGroup ==
    /\ Building("rigid_group")
    /\ LET t == Head(todo)
           r == add_rigid_group(design, links, attrs, occurrences_in_rigid_groups,
                                t.id, t.prefix)
       IN  /\ links' = r.links
           /\ attrs' = r.attrs
           /\ occurrences_in_rigid_groups' = r.oirg
           /\ rigid_group_link' =
                 IF design.groups[t.id].owner = 0 THEN rigid_group_link ELSE r.link
    /\ todo' = Tail(todo)
    /\ UNCHANGED <<design, joints, fusion_joints, root_link, root_links, pc, out,
                   builds, prev_root, poseVars>>

\* lines 69-78, 83-91: add_link for the occurrence, then the calls
\* parse_occurrence makes for its component
ParseOccurrence ==
    /\ Building("occurrence")
    /\ LET t == Head(todo)
           o == t.id
           r == add_link(links, attrs, occurrences_in_rigid_groups,
                         design.occ[o].name, o, "occurrence", o,
                         design.occ[o].bodies, t.prefix)
           children_prefix == t.prefix \o normalize_name(design.occ[o].name)
                              \o <<"_", "_">>
           groups == GroupsOf(design, o)
           own_joints == JointsOf(design, o, FALSE) \o JointsOf(design, o, TRUE)
       IN  /\ links' = r.links
           /\ attrs' = r.attrs
           /\ todo' = Tasks("rigid_group", groups, children_prefix)
                      \o (IF groups = <<>> THEN <<>>
                          ELSE <<Task("link_name", o, children_prefix)>>)
                      \o Tasks("occurrence", Children(design, o), children_prefix)
                      \o (IF own_joints = <<>> THEN <<>>
                          ELSE <<Task("defer", o, children_prefix)>>)
                      \o Tail(todo)
    /\ rigid_group_link' = None
    /\ UNCHANGED <<design, joints, fusion_joints, occurrences_in_rigid_groups,
                   root_link, root_links, pc, out, builds, prev_root, poseVars>>

\* lines 79-81: the occurrence takes the link name of its component's last
\* rigid group, when that group produced a link
SetLinkName ==
    /\ Building("link_name")
    /\ attrs' = IF rigid_group_link # None
                THEN SetAttr(attrs, Head(todo).id, rigid_group_link)
                ELSE attrs
    /\ todo' = Tail(todo)
    /\ UNCHANGED <<design, links, joints, fusion_joints,
                   occurrences_in_rigid_groups, root_link, root_links,
                   rigid_group_link, pc, out, builds, prev_root, poseVars>>

\* lines 87-91: the component's joints are put off to the end
DeferJoints ==
    /\ Building("defer")
    /\ LET t == Head(todo)
           deferred(as_built) ==
               LET js == JointsOf(design, t.id, as_built)
               IN  [i \in DOMAIN js |->
                       [joint |-> js[i], as_built |-> as_built, prefix |-> t.prefix]]
       IN  fusion_joints' = fusion_joints \o deferred(FALSE) \o deferred(TRUE)
    /\ todo' = Tail(todo)
    /\ UNCHANGED <<design, attrs, links, joints, occurrences_in_rigid_groups,
                   root_link, root_links, rigid_group_link, pc, out, builds,
                   prev_root, poseVars>>

\* lines 50-51: the loop over the joints put off
ResolveFusionJoints ==
    /\ Building("fusion_joints")
    /\ todo' = [i \in DOMAIN fusion_joints |->
                   Task("joint", fusion_joints[i].joint, fusion_joints[i].prefix)]
               \o Tail(todo)
    /\ UNCHANGED <<design, attrs, links, joints, fusion_joints,
                   occurrences_in_rigid_groups, root_link, root_links,
                   rigid_group_link, pc, out, builds, prev_root, poseVars>>

\* lines 47, 49, 51: one call of add_joint
AddJoint ==
    /\ Building("joint")
    /\ LET t == Head(todo)
           fj == design.joints[t.id]
           joint_name == t.prefix \o normalize_name(fj.name)
           joint == NewJoint(design, attrs, occurrences_in_rigid_groups, t.id,
                             joint_name)
           \* after a swap the unresolved end is still one of the two
       IN  IF joint_name \in Keys(joints)
           THEN /\ joints' = joints
                /\ todo' = Tail(todo)
                /\ pc' = pc
           ELSE IF None \in {joint.parent, joint.child}
           THEN \* AttributeError: the build ends without an SDF object
                /\ joints' = joints
                /\ todo' = <<>>
                /\ pc' = "failed"
           ELSE /\ joints' = Put(joints, joint_name, joint)
                /\ todo' = Tail(todo)
                /\ pc' = pc
    /\ UNCHANGED <<design, attrs, links, fusion_joints,
                   occurrences_in_rigid_groups, root_link, root_links,
                   rigid_group_link, out, builds, prev_root, poseVars>>

\* lines 53-60: set iteration order over str keys is not fixed by the
\* program (hash randomisation), so next(iter(root_links)) is any element
SelectRoot ==
    /\ Building("select_root")
    /\ LET links_with_parent_joints == {Values(joints)[i].child : i \in DOMAIN joints}
           candidates == Keys(links) \ links_with_parent_joints
       IN  /\ root_links' = candidates
           /\ IF candidates = {}
              THEN root_link' = root_link
              ELSE root_link' \in candidates
    /\ todo' = Tail(todo)
    /\ UNCHANGED <<design, attrs, links, joints, fusion_joints,
                   occurrences_in_rigid_groups, rigid_group_link, pc, out, builds,
                   prev_root, poseVars>>

\* lines 62-66
InjectAnchor ==
    /\ Building("anchor")
    /\ links' = Put(links, BaseLink, Link(BaseLink, "anchor", 0, 0))
    /\ joints' = Put(joints, BaseLinkJoint,
                     Joint(BaseLinkJoint, "fixed", Absent, BaseLink, root_link, 0))
    /\ root_link' = BaseLink
    /\ todo' = Tail(todo)
    /\ pc' = "done"
    /\ UNCHANGED <<design, attrs, fusion_joints, occurrences_in_rigid_groups,
                   root_links, rigid_group_link, out, builds, prev_root, poseVars>>

----------------------------------------------------------------------------
(* Tree emission *)

Element(tag, name) == [tag |-> tag, name |-> name]

\* the root link is not skipped in the loop over the links
to_sdf_string_RootTwice(L, J, root) ==
    LET first == IF root # None THEN <<Element("link", Get(L, root).name)>> ELSE <<>>
    IN  first \o [i \in DOMAIN L |-> Element("link", L[i][2].name)]
        \o [i \in DOMAIN J |-> Element("joint", J[i][2].name)]

to_sdf_string(L, J, root) ==
    LET first == IF root # None THEN <<Element("link", Get(L, root).name)>> ELSE <<>>
        rest == [i \in DOMAIN L |-> Element("link", L[i][2].name)]
        RECURSIVE others(_)
        others(s) == IF s = <<>> THEN <<>>
                     ELSE IF Head(s).name = root THEN others(Tail(s))
                     ELSE <<Head(s)>> \o others(Tail(s))
    IN  first \o others(rest) \o [i \in DOMAIN J |-> Element("joint", J[i][2].name)]

\* SDF.save, lines 293-305, after the constructor has returned
Save ==
    /\ pc = "done"
    /\ out' = to_sdf_string(links, joints, root_link)
    /\ pc' = "saved"
    /\ UNCHANGED <<design, attrs, links, joints, fusion_joints,
                   occurrences_in_rigid_groups, root_link, root_links,
                   rigid_group_link, todo, builds, prev_root, poseVars>>

\* FusionSDF.run once more on the same design: SDF.__init__, lines 20-32.
\* The link_name attributes stay on the occurrences of the design.
Rebuild ==
    /\ pc = "saved"
    /\ builds < MaxBuilds
    /\ builds' = builds + 1
    /\ prev_root' = Get(joints, BaseLinkJoint).child
    /\ links' = <<>>
    /\ joints' = <<>>
    /\ fusion_joints' = <<>>
    /\ occurrences_in_rigid_groups' = <<>>
    /\ root_link' = None
    /\ root_links' = {}
    /\ rigid_group_link' = None
    /\ todo' = RootTasks(design)
    /\ pc' = "build"
    /\ out' = <<>>
    /\ UNCHANGED <<design, attrs, poseVars>>

----------------------------------------------------------------------------
(* Pose.to_sdf_element.  A Pose is held by the six values its transform    *)
(* gives back (get_translation, get_rotation_rpy) and its frame tag.       *)

\* 1e-6
Eps == 1000

Abs(v) == IF v < 0 THEN 0 - v ELSE v

\* Python truth of relative_to
HasFrame(relative_to) == relative_to \notin {NoFrame, ""}

\* <= in place of <
pose_to_sdf_element_AtThreshold(p, n) ==
    LET values == p.translation \o p.rotation
    IN  IF \A i \in DOMAIN values : Abs(values[i]) <= Eps
        THEN n
        ELSE Append(n, [tag |-> "pose",
                        attrib |-> IF HasFrame(p.relative_to)
                                   THEN << <<"relative_to", p.relative_to>> >>
                                   ELSE <<>>,
                        text |-> values])

pose_to_sdf_element(p, n) ==
    LET values == p.translation \o p.rotation
    IN  IF \A i \in DOMAIN values : Abs(values[i]) < Eps
        THEN n
        ELSE Append(n, [tag |-> "pose",
                        attrib |-> IF HasFrame(p.relative_to)
                                   THEN << <<"relative_to", p.relative_to>> >>
                                   ELSE <<>>,
                        text |-> values])

PoseValues == {0 - Eps, 1 - Eps, 0, 1, Eps}

Poses ==
    [translation : [1..3 -> PoseValues], rotation : [1..3 -> PoseValues],
     relative_to : {ModelFrame, NoFrame}]

InitPose ==
    /\ design = [occ |-> <<>>, groups |-> <<>>, joints |-> <<>>]
    /\ attrs = <<>>
    /\ links = <<>>
    /\ joints = <<>>
    /\ fusion_joints = <<>>
    /\ occurrences_in_rigid_groups = <<>>
    /\ root_link = None
    /\ root_links = {}
    /\ rigid_group_link = None
    /\ todo = <<>>
    /\ pc = "pose"
    /\ out = <<>>
    /\ builds = 1
    /\ prev_root = None
    /\ this_pose \in Poses
    /\ node = <<>>
    /\ this_transform = <<>>
    /\ this_link = <<>>

PoseToSdfElement ==
    /\ pc = "pose"
    /\ node' = pose_to_sdf_element(this_pose, node)
    /\ pc' = "posed"
    /\ UNCHANGED <<design, attrs, links, joints, fusion_joints,
                   occurrences_in_rigid_groups, root_link, root_links,
                   rigid_group_link, todo, out, builds, prev_root, this_pose,
                   this_transform, this_link>>

----------------------------------------------------------------------------
(* fusionsdf/transform.py.  A float is held exactly up to second order in  *)
(* a small quantity e = 1e-7: <<a, b, c>> stands for a + b*e + c*e*e/2,    *)
(* with small integers a, b, c.  An angle <<k, d>> stands for k quarter    *)
(* turns plus d*e radians.                                                 *)

Zero == <<0, 0, 0>>
One == <<1, 0, 0>>
\* 1e-6
AbsTol == <<0, 10, 0>>

NumAdd(x, y) == <<x[1] + y[1], x[2] + y[2], x[3] + y[3]>>
NumNeg(x) == <<0 - x[1], 0 - x[2], 0 - x[3]>>
NumMul(x, y) ==
    <<x[1] * y[1],
      x[1] * y[2] + x[2] * y[1],
      x[1] * y[3] + x[3] * y[1] + 2 * x[2] * y[2]>>
NumLess(x, y) ==
    \/ x[1] < y[1]
    \/ x[1] = y[1] /\ x[2] < y[2]
    \/ x[1] = y[1] /\ x[2] = y[2] /\ x[3] < y[3]
NumAbs(x) == IF NumLess(x, Zero) THEN NumNeg(x) ELSE x

\* the integer whose square is n
IntRoot(n) == CHOOSE r \in 0..n : r * r = n

\* math.sqrt of a number that is a square to the order held
sqrt(x) ==
    IF x[1] > 0
    THEN LET r == IntRoot(x[1])
         IN  <<r, x[2] \div (2 * r),
               x[3] \div (2 * r) - (x[2] * x[2]) \div (4 * r * r * r)>>
    ELSE <<0, IntRoot(x[3] \div 2), 0>>

\* cosine and sine of k quarter turns
QuarterCos(k) == CASE k % 4 = 0 -> 1 [] k % 4 = 2 -> 0 - 1 [] OTHER -> 0
QuarterSin(k) == CASE k % 4 = 1 -> 1 [] k % 4 = 3 -> 0 - 1 [] OTHER -> 0

cos(angle) ==
    LET c == QuarterCos(angle[1])
        s == QuarterSin(angle[1])
        d == angle[2]
    IN  <<c, 0 - s * d, 0 - c * d * d>>

sin(angle) ==
    LET c == QuarterCos(angle[1])
        s == QuarterSin(angle[1])
        d == angle[2]
    IN  <<s, c * d, 0 - s * d * d>>

\* the quarter turn of the direction (x, y), one of x, y being 0
QuarterOf(y, x) ==
    CASE y = 0 /\ x > 0 -> 0
      [] y = 0 /\ x < 0 -> 2
      [] x = 0 /\ y > 0 -> 1
      [] x = 0 /\ y < 0 -> 0 - 1

\* math.atan2: the result lies in (-pi, pi], atan2(0, 0) is 0
atan2(y, x) ==
    IF x[1] # 0 \/ y[1] # 0
    THEN LET k == QuarterOf(y[1], x[1])
             d == (x[1] * y[2] - y[1] * x[2]) \div (x[1] * x[1] + y[1] * y[1])
         IN  IF k = 2 /\ d > 0 THEN <<0 - 2, d>> ELSE <<k, d>>
    ELSE IF x[2] # 0 \/ y[2] # 0 THEN <<QuarterOf(y[2], x[2]), 0>>
    ELSE IF x[3] # 0 \/ y[3] # 0 THEN <<QuarterOf(y[3], x[3]), 0>>
    ELSE <<0, 0>>

\* math.asin
asin(x) ==
    CASE x[1] = 0 -> <<0, x[2]>>
      [] x[1] = 1 -> <<1, 0 - IntRoot(0 - x[3])>>
      [] x[1] = 0 - 1 -> <<0 - 1, IntRoot(x[3])>>

AngleLess(a, b) == a[1] < b[1] \/ (a[1] = b[1] /\ a[2] < b[2])

\* a Python list comprehension: the list is built where it is written
List(f) == f \o <<>>

RECURSIVE Dot(_, _, _, _, _)
Dot(A, B, i, j, k) ==
    IF k = 0 THEN Zero
    ELSE NumAdd(Dot(A, B, i, j, k - 1), NumMul(A[i][k], B[k][j]))

matrix_multiply(A, B) ==
    List([i \in 1..Len(A) |->
            List([j \in 1..Len(B[1]) |-> Dot(A, B, i, j, Len(B))])])

Identity ==
    << <<One, Zero, Zero, Zero>>, <<Zero, One, Zero, Zero>>,
       <<Zero, Zero, One, Zero>>, <<Zero, Zero, Zero, One>> >>

set_translation(matrix, translation) ==
    List([i \in 1..4 |-> IF i <= 3 THEN [matrix[i] EXCEPT ![4] = translation[i]]
                         ELSE matrix[i]])

set_rotation_rpy(matrix, roll, pitch, yaw) ==
    LET Rx == << <<One, Zero, Zero>>,
                 <<Zero, cos(roll), NumNeg(sin(roll))>>,
                 <<Zero, sin(roll), cos(roll)>> >>
        Ry == << <<cos(pitch), Zero, sin(pitch)>>,
                 <<Zero, One, Zero>>,
                 <<NumNeg(sin(pitch)), Zero, cos(pitch)>> >>
        Rz == << <<cos(yaw), NumNeg(sin(yaw)), Zero>>,
                 <<sin(yaw), cos(yaw), Zero>>,
                 <<Zero, Zero, One>> >>
        R == matrix_multiply(matrix_multiply(Rz, Ry), Rx)
    IN  List([i \in 1..4 |->
                IF i <= 3
                THEN List([j \in 1..4 |-> IF j <= 3 THEN R[i][j] ELSE matrix[i][j]])
                ELSE matrix[i]])

\* Transform(translation, rotation)
Transform(translation, rotation) ==
    set_rotation_rpy(set_translation(Identity, translation),
                     rotation[1], rotation[2], rotation[3])

\* __eq__: math.isclose(a, b, abs_tol=1e-6) on every entry; the relative
\* tolerance 1e-9 decides nothing for entries below 1000
isclose(a, b) == ~NumLess(AbsTol, NumAbs(NumAdd(a, NumNeg(b))))
eq(matrix, other) == \A i, j \in 1..4 : isclose(matrix[i][j], other[i][j])

\* __mul__
mul(matrix, other) == matrix_multiply(matrix, other)

\* the rotation block is copied, not transposed
inverse_Untransposed(matrix) ==
    LET R == List([i \in 1..3 |-> SubSeq(matrix[i], 1, 3)])
        t == List([i \in 1..3 |-> matrix[i][4]])
        R_inv == R
        t_inv_mat == matrix_multiply(R_inv, List([i \in 1..3 |-> <<NumNeg(t[i])>>]))
    IN  List([i \in 1..3 |-> R_inv[i] \o t_inv_mat[i]]) \o << <<Zero, Zero, Zero, One>> >>

inverse(matrix) ==
    LET R == List([i \in 1..3 |-> SubSeq(matrix[i], 1, 3)])
        t == List([i \in 1..3 |-> matrix[i][4]])
        R_inv == List([i \in 1..3 |-> List([j \in 1..3 |-> R[j][i]])])
        t_inv_mat == matrix_multiply(R_inv, List([i \in 1..3 |-> <<NumNeg(t[i])>>]))
    IN  List([i \in 1..3 |-> R_inv[i] \o t_inv_mat[i]]) \o << <<Zero, Zero, Zero, One>> >>

get_translation(matrix) == List([i \in 1..3 |-> matrix[i][4]])

\* the roll at gimbal lock is taken the same way for either sign of pitch
get_rotation_rpy_OneSign(matrix) ==
    LET R == List([i \in 1..3 |-> SubSeq(matrix[i], 1, 3)])
        cos_pitch == sqrt(NumAdd(NumMul(R[1][1], R[1][1]), NumMul(R[2][1], R[2][1])))
    IN  IF NumLess(cos_pitch, AbsTol)
        THEN <<atan2(R[1][2], R[2][2]), asin(NumNeg(R[3][1])), <<0, 0>>>>
        ELSE <<atan2(R[3][2], R[3][3]),
               atan2(NumNeg(R[3][1]), cos_pitch),
               atan2(R[2][1], R[1][1])>>

get_rotation_rpy(matrix) ==
    LET R == List([i \in 1..3 |-> SubSeq(matrix[i], 1, 3)])
        cos_pitch == sqrt(NumAdd(NumMul(R[1][1], R[1][1]), NumMul(R[2][1], R[2][1])))
    IN  IF NumLess(cos_pitch, AbsTol)
        THEN LET pitch == asin(NumNeg(R[3][1]))
                 roll == IF AngleLess(<<0, 0>>, pitch)
                         THEN atan2(R[1][2], R[2][2])
                         ELSE atan2(NumNeg(R[1][2]), R[2][2])
             IN  <<roll, pitch, <<0, 0>>>>
        ELSE <<atan2(R[3][2], R[3][3]),
               atan2(NumNeg(R[3][1]), cos_pitch),
               atan2(R[2][1], R[1][1])>>

\* the translations and angles the tests of the class are run with: whole
\* units, quarter turns, and pitches 1e-7 off the quarter turn
TestTranslations == [1..3 -> {<<0 - 1, 0, 0>>, Zero, <<2, 0, 0>>}]
TestTurns == {<<0 - 1, 0>>, <<0, 0>>, <<1, 0>>, <<2, 0>>}
TestPitches == {<<0 - 1, 0>>, <<0 - 1, 1>>, <<0, 0>>, <<0, 1>>, <<1, 0 - 1>>, <<1, 0>>}

InitTransform ==
    /\ design = [occ |-> <<>>, groups |-> <<>>, joints |-> <<>>]
    /\ attrs = <<>>
    /\ links = <<>>
    /\ joints = <<>>
    /\ fusion_joints = <<>>
    /\ occurrences_in_rigid_groups = <<>>
    /\ root_link = None
    /\ root_links = {}
    /\ rigid_group_link = None
    /\ todo = <<>>
    /\ pc = "transform"
    /\ out = <<>>
    /\ builds = 1
    /\ prev_root = None
    /\ this_pose = DefaultPose
    /\ node = <<>>
    /\ this_link = <<>>
    /\ \E translation \in TestTranslations, roll \in TestTurns,
          pitch \in TestPitches, yaw \in TestTurns :
          this_transform = [translation |-> translation,
                            rotation |-> <<roll, pitch, yaw>>,
                            returned_rotation |-> <<>>, rebuilt |-> <<>>,
                            T |-> <<>>, T_inv |-> <<>>, T_post |-> <<>>,
                            T_pre |-> <<>>]

\* test_rotation_set_and_get, for one rotation
RotationSetAndGet ==
    /\ pc = "transform"
    /\ LET T == Transform(this_transform.translation, this_transform.rotation)
           returned_rotation == get_rotation_rpy(T)
       IN  this_transform' =
              [this_transform EXCEPT
                  !.T = T,
                  !.returned_rotation = returned_rotation,
                  !.rebuilt = Transform(this_transform.translation,
                                        returned_rotation)]
    /\ pc' = "rotation_got"
    /\ UNCHANGED <<design, attrs, links, joints, fusion_joints,
                   occurrences_in_rigid_groups, root_link, root_links,
                   rigid_group_link, todo, out, builds, prev_root, this_pose,
                   node, this_link>>

\* test_multiplication_with_inverse, for one Transform
MultiplicationWithInverse ==
    /\ pc = "transform"
    /\ LET T == Transform(this_transform.translation, this_transform.rotation)
           T_inv == inverse(T)
       IN  this_transform' =
              [this_transform EXCEPT !.T = T,
                                     !.T_inv = T_inv,
                                     !.T_post = mul(T, T_inv),
                                     !.T_pre = mul(T_inv, T)]
    /\ pc' = "multiplied"
    /\ UNCHANGED <<design, attrs, links, joints, fusion_joints,
                   occurrences_in_rigid_groups, root_link, root_links,
                   rigid_group_link, todo, out, builds, prev_root, this_pose,
                   node, this_link>>

----------------------------------------------------------------------------
(* add_link, lines 112-186: the Link made for an occurrence with bodies,   *)
(* and fusionsdf/link.py.  Numbers are fixed point in units of 1e-9; an    *)
(* angle of a Pose is k quarter turns plus d * 1e-7 radians.               *)

\* the product of two floats, exact for multiples of 1e-6 whose product is
\* a multiple of 1e-9
FloatMul(a, b) == ((a \div 1000) * (b \div 1000)) \div 1000

kg_cm2_to_kg_m2(kg_cm2) == kg_cm2 \div 10000

world_inertia_to_com_inertia_PlusProducts(inertia, center_of_mass, mass) ==
    LET x == center_of_mass[1]
        y == center_of_mass[2]
        z == center_of_mass[3]
        translation_matrix ==
            <<FloatMul(y, y) + FloatMul(z, z), FloatMul(x, x) + FloatMul(z, z),
              FloatMul(x, x) + FloatMul(y, y),
              FloatMul(x, y), FloatMul(y, z), FloatMul(x, z)>>
    IN  List([i \in 1..6 |-> inertia[i] - FloatMul(mass, translation_matrix[i])])

world_inertia_to_com_inertia(inertia, center_of_mass, mass) ==
    LET x == center_of_mass[1]
        y == center_of_mass[2]
        z == center_of_mass[3]
        translation_matrix ==
            <<FloatMul(y, y) + FloatMul(z, z), FloatMul(x, x) + FloatMul(z, z),
              FloatMul(x, x) + FloatMul(y, y),
              0 - FloatMul(x, y), 0 - FloatMul(y, z), 0 - FloatMul(x, z)>>
    IN  List([i \in 1..6 |-> inertia[i] - FloatMul(mass, translation_matrix[i])])

\* a float of a Pose as a number of a Transform and back
Num(v) == <<v, 0, 0>>
Float(x) == x[1] + x[2] * 100
Radians(angle) == angle[1] * 1570796327 + angle[2] * 100
Angle(v) ==
    CHOOSE angle \in (0 - 1 .. 1) \X (0 - 20 .. 20) : Radians(angle) = v

\* Pose.__init__ keeps a Transform; the six values are read back from it
NewPose(translation, rotation, relative_to) ==
    LET T == Transform(List([i \in 1..3 |-> Num(translation[i])]),
                       List([i \in 1..3 |-> Angle(rotation[i])]))
    IN  Pose(List([i \in 1..3 |-> Float(get_translation(T)[i])]),
             List([i \in 1..3 |-> Radians(get_rotation_rpy(T)[i])]),
             relative_to)

PoseTransform(p) ==
    Transform(List([i \in 1..3 |-> Num(p.translation[i])]),
              List([i \in 1..3 |-> Angle(p.rotation[i])]))

\* Pose.inverse
pose_inverse(p) ==
    LET T == inverse(PoseTransform(p))
    IN  NewPose(List([i \in 1..3 |-> Float(get_translation(T)[i])]),
                List([i \in 1..3 |-> Radians(get_rotation_rpy(T)[i])]),
                p.relative_to)

\* Pose.__mul__
pose_mul(p, other) ==
    LET combined == mul(PoseTransform(p), PoseTransform(other))
    IN  NewPose(List([i \in 1..3 |-> Float(get_translation(combined)[i])]),
                List([i \in 1..3 |-> Radians(get_rotation_rpy(combined)[i])]),
                p.relative_to)

matrix3d_to_rpy(matrix3d) ==
    LET R == List([i \in 1..3 |-> SubSeq(matrix3d[i], 1, 3)])
        sy == sqrt(NumAdd(NumMul(R[1][1], R[1][1]), NumMul(R[2][1], R[2][1])))
    IN  IF ~NumLess(sy, AbsTol)
        THEN <<atan2(R[3][2], R[3][3]), atan2(NumNeg(R[3][1]), sy),
               atan2(R[2][1], R[1][1])>>
        ELSE <<atan2(NumNeg(R[2][3]), R[2][2]), atan2(NumNeg(R[3][1]), sy),
               <<0, 0>>>>

transform2_to_pose(transform2) ==
    NewPose(cm_to_m_list(List([i \in 1..3 |-> Float(get_translation(transform2)[i])])),
            List([i \in 1..3 |-> Radians(matrix3d_to_rpy(transform2)[i])]),
            ModelFrame)

\* link.py: Link, LinkElement, LinkGeometry, LinkInertial
NewLink(name) ==
    [name |-> name, pose |-> Absent, visuals |-> <<>>, collisions |-> <<>>,
     inertial |-> Absent]

LinkElement(element_type, name) ==
    [element_type |-> element_type, name |-> name, pose |-> Absent,
     geometry |-> Absent]

LinkGeometry(geometry_type) ==
    [geometry_type |-> geometry_type, mesh_uri |-> Absent, size |-> Absent]

LinkInertial(pose, mass, ixx, ixy, ixz, iyy, iyz, izz) ==
    [pose |-> pose, mass |-> mass, ixx |-> ixx, ixy |-> ixy, ixz |-> ixz,
     iyy |-> iyy, iyz |-> iyz, izz |-> izz]

\* the oriented minimum bounding box adsk reports for a body, in cm
orientedMinimumBoundingBox ==
    [centerPoint |-> <<0, 500000000, 0>>, height |-> 1000000000,
     width |-> 2000000000, length |-> 1000000000]

Suffixed(link_name, body_name, suffix) ==
    link_name \o <<"_", "_">> \o normalize_name(body_name) \o suffix

\* lines 119-149, for the bodies from the i-th on
RECURSIVE add_bodies(_, _, _, _, _)
add_bodies(link, bodies, i, rigid_group_pose, use_mesh) ==
    IF i > Len(bodies) THEN link
    ELSE
      LET v0 == LinkElement("visual",
                            Suffixed(link.name, bodies[i], <<"_","v","i","s","u","a","l">>))
          geometry == [LinkGeometry("mesh") EXCEPT !.mesh_uri = <<v0.name>>]
          visual == [v0 EXCEPT !.geometry = <<geometry>>,
                               !.pose = rigid_group_pose]
          c0 == LinkElement("collision",
                            Suffixed(link.name, bodies[i],
                                     <<"_","c","o","l","l","i","s","i","o","n">>))
          obb == orientedMinimumBoundingBox
          obb_pose == NewPose(cm_to_m_list(obb.centerPoint), <<0, 0, 0>>, ModelFrame)
          collision ==
              IF c0.name \in use_mesh
              THEN [c0 EXCEPT !.pose = visual.pose, !.geometry = visual.geometry]
              ELSE [c0 EXCEPT
                      !.pose = IF rigid_group_pose # Absent
                               THEN <<pose_mul(rigid_group_pose[1], obb_pose)>>
                               ELSE <<obb_pose>>,
                      !.geometry =
                          <<[LinkGeometry("box") EXCEPT
                                !.size = <<<<cm_to_m(obb.height), cm_to_m(obb.width),
                                             cm_to_m(obb.length)>>>>]>>]
      IN  add_bodies([link EXCEPT
                         !.visuals = Put(link.visuals, visual.name, visual),
                         !.collisions = Put(link.collisions, collision.name, collision)],
                     bodies, i + 1, rigid_group_pose, use_mesh)

\* the frame tag of the link's pose is left on the inertial pose
link_inertial_Tagged(link, physical_properties, rigid_group_pose) ==
    LET center_of_mass == cm_to_m_list(physical_properties.centerOfMass)
        moments == IF physical_properties.inertia_valid
                   THEN physical_properties.moments
                   ELSE <<1000000000, 1000000000, 1000000000, 0, 0, 0>>
        world == List([i \in 1..6 |-> kg_cm2_to_kg_m2(moments[i])])
        com == world_inertia_to_com_inertia(world, center_of_mass,
                                            physical_properties.mass)
        inertial_pose_model == NewPose(center_of_mass, <<0, 0, 0>>, ModelFrame)
        inertial_pose_link ==
            IF rigid_group_pose # Absent
            THEN pose_mul(pose_mul(pose_inverse(link.pose[1]), rigid_group_pose[1]),
                          inertial_pose_model)
            ELSE pose_mul(pose_inverse(link.pose[1]), inertial_pose_model)
    IN  LinkInertial(inertial_pose_link,
                     physical_properties.mass,
                     com[1], com[4], com[6], com[2], com[5], com[3])

\* lines 166-184
link_inertial(link, physical_properties, rigid_group_pose) ==
    LET center_of_mass == cm_to_m_list(physical_properties.centerOfMass)
        moments == IF physical_properties.inertia_valid
                   THEN physical_properties.moments
                   ELSE <<1000000000, 1000000000, 1000000000, 0, 0, 0>>
        world == List([i \in 1..6 |-> kg_cm2_to_kg_m2(moments[i])])
        com == world_inertia_to_com_inertia(world, center_of_mass,
                                            physical_properties.mass)
        inertial_pose_model == NewPose(center_of_mass, <<0, 0, 0>>, ModelFrame)
        inertial_pose_link ==
            IF rigid_group_pose # Absent
            THEN pose_mul(pose_mul(pose_inverse(link.pose[1]), rigid_group_pose[1]),
                          inertial_pose_model)
            ELSE pose_mul(pose_inverse(link.pose[1]), inertial_pose_model)
    IN  LinkInertial([inertial_pose_link EXCEPT !.relative_to = NoFrame],
                     physical_properties.mass,
                     com[1], com[4], com[6], com[2], com[5], com[3])

\* lines 112-184: the Link of an occurrence that has bodies
link_of(link_name, occurrence, rigid_group_pose, use_mesh) ==
    LET l0 == [NewLink(link_name) EXCEPT
                  !.pose = IF rigid_group_pose # Absent THEN rigid_group_pose
                           ELSE <<transform2_to_pose(occurrence.transform2)>>]
        l1 == add_bodies(l0, occurrence.bRepBodies, 1, rigid_group_pose, use_mesh)
    IN  [l1 EXCEPT !.inertial =
                      <<link_inertial(l1, occurrence.physical_properties,
                                      rigid_group_pose)>>]

\* lines 63-64: the anchor link
anchor_link ==
    [NewLink(BaseLink) EXCEPT
        !.inertial = <<LinkInertial(NewPose(<<0, 0, 0>>, <<0, 0, 0>>, ModelFrame),
                                    100000, 1, 0, 0, 1, 0, 1)>>]

\* link.py, to_sdf_element of LinkGeometry, LinkElement, LinkInertial, Link
geometry_to_sdf_element(geometry, n) ==
    Append(n, [tag |-> "geometry", kind |-> geometry.geometry_type])

element_to_sdf_element(element, n) ==
    Append(n, [tag |-> element.element_type, name |-> element.name,
               children |->
                  geometry_to_sdf_element(element.geometry[1],
                     IF element.pose # Absent
                     THEN pose_to_sdf_element(element.pose[1], <<>>)
                     ELSE <<>>)])

inertial_to_sdf_element(inertial, n) ==
    Append(n, [tag |-> "inertial",
               children |->
                  pose_to_sdf_element(inertial.pose, <<>>)
                  \o <<[tag |-> "mass", text |-> inertial.mass],
                       [tag |-> "inertia",
                        text |-> <<inertial.ixx, inertial.ixy, inertial.ixz,
                                   inertial.iyy, inertial.iyz, inertial.izz>>]>>])

RECURSIVE elements_to_sdf_element(_, _)
elements_to_sdf_element(elements, n) ==
    IF elements = <<>> THEN n
    ELSE elements_to_sdf_element(Tail(elements),
                                 element_to_sdf_element(Head(elements)[2], n))

link_to_sdf_element(link, n) ==
    LET n1 == IF link.pose # Absent THEN pose_to_sdf_element(link.pose[1], <<>>)
              ELSE <<>>
        n2 == IF link.inertial # Absent
              THEN inertial_to_sdf_element(link.inertial[1], n1)
              ELSE n1
        n3 == elements_to_sdf_element(link.visuals, n2)
    IN  Append(n, [tag |-> "link", name |-> link.name,
                   children |-> elements_to_sdf_element(link.collisions, n3)])

\* the occurrences add_link is tried with
BodyNames ==
    { <<"B","o","d","y","1">>, <<"B","o","d","y"," ","1">>,
      <<"b","o","d","y","_","1">> }
BodyLists ==
    { bodies \in [1..1 -> BodyNames] \cup [1..2 -> BodyNames] :
        \A i, k \in DOMAIN bodies : i # k => bodies[i] # bodies[k] }
Matrix3Ds ==
    { Transform(List([i \in 1..3 |-> Num(t[i])]), <<<<0, 0>>, <<0, 0>>, yaw>>) :
        t \in {<<0, 0, 0>>, <<1000000000, 0, 0>>},
        yaw \in {<<0, 0>>, <<1, 0>>} }
PhysicalProperties ==
    [centerOfMass : {<<0, 0, 0>>, <<1000000000, 0, 0>>,
                     <<500000000, 500000000, 0>>,
                     <<0, 1000000000, 0 - 1000000000>>},
     mass : {1000000000, 2000000000},
     inertia_valid : BOOLEAN,
     moments : {<<1000000000, 1000000000, 1000000000, 0, 0, 0>>,
                <<2000000000, 1000000000, 1000000000,
                  500000000, 0, 0 - 500000000>>}]
Occurrences ==
    [name : {OccNameList[1]}, bRepBodies : BodyLists, transform2 : Matrix3Ds,
     physical_properties : PhysicalProperties]
RigidGroupPoses ==
    {Absent, <<DefaultPose>>,
     <<Pose(<<10000000, 0, 0>>, <<0, 0, 0>>, ModelFrame)>>}

InitLink ==
    /\ design = [occ |-> <<>>, groups |-> <<>>, joints |-> <<>>]
    /\ attrs = <<>>
    /\ links = <<>>
    /\ joints = <<>>
    /\ fusion_joints = <<>>
    /\ occurrences_in_rigid_groups = <<>>
    /\ root_link = None
    /\ root_links = {}
    /\ rigid_group_link = None
    /\ todo = <<>>
    /\ pc = "link"
    /\ out = <<>>
    /\ builds = 1
    /\ prev_root = None
    /\ this_pose = DefaultPose
    /\ node = <<>>
    /\ this_transform = <<>>
    /\ \E occurrence \in Occurrences, rigid_group_pose \in RigidGroupPoses,
          use_mesh \in BOOLEAN :
          this_link = [occurrence |-> occurrence,
                       rigid_group_pose |-> rigid_group_pose,
                       use_mesh |-> use_mesh, link |-> Absent]

\* add_link from line 112 on, for an occurrence with bodies
AddLinkData ==
    /\ pc = "link"
    /\ LET occurrence == this_link.occurrence
           link_name == normalize_name(occurrence.name)
           named == {Suffixed(link_name, occurrence.bRepBodies[i],
                              <<"_","c","o","l","l","i","s","i","o","n">>) :
                       i \in DOMAIN occurrence.bRepBodies}
       IN  this_link' =
              [this_link EXCEPT
                  !.link = <<link_of(link_name, occurrence,
                                     this_link.rigid_group_pose,
                                     IF this_link.use_mesh THEN named ELSE {})>>]
    /\ pc' = "linked"
    /\ UNCHANGED <<design, attrs, links, joints, fusion_joints,
                   occurrences_in_rigid_groups, root_link, root_links,
                   rigid_group_link, todo, out, builds, prev_root, this_pose,
                   node, this_transform>>

\* lines 63-64 of parse_root_component
AddAnchorLink ==
    /\ pc = "link"
    /\ this_link' = [this_link EXCEPT !.link = <<anchor_link>>]
    /\ pc' = "anchored"
    /\ UNCHANGED <<design, attrs, links, joints, fusion_joints,
                   occurrences_in_rigid_groups, root_link, root_links,
                   rigid_group_link, todo, out, builds, prev_root, this_pose,
                   node, this_transform>>

\* Link.to_sdf_element
LinkToSdfElement ==
    /\ pc \in {"linked", "anchored"}
    /\ node' = link_to_sdf_element(this_link.link[1], node)
    /\ pc' = IF pc = "linked" THEN "emitted" ELSE "anchor_emitted"
    /\ UNCHANGED <<design, attrs, links, joints, fusion_joints,
                   occurrences_in_rigid_groups, root_link, root_links,
                   rigid_group_link, todo, out, builds, prev_root, this_pose,
                   this_transform, this_link>>

----------------------------------------------------------------------------

Next ==
    \/ AddRigidGroup
    \/ ParseOccurrence
    \/ SetLinkName
    \/ DeferJoints
    \/ ResolveFusionJoints
    \/ AddJoint
    \/ SelectRoot
    \/ InjectAnchor
    \/ Save

Spec == Init /\ [][Next]_vars

SpecJoint == InitJoint /\ [][Next]_vars

NextRebuild == Next \/ Rebuild

SpecRebuild == Init /\ [][NextRebuild]_vars

SpecPose == InitPose /\ [][PoseToSdfElement]_vars

NextTransform == RotationSetAndGet \/ MultiplicationWithInverse

SpecTransform == InitTransform /\ [][NextTransform]_vars

NextLink == AddLinkData \/ AddAnchorLink \/ LinkToSdfElement

SpecLink == InitLink /\ [][NextLink]_vars

----------------------------------------------------------------------------
(* Properties *)

Built == pc \in {"done", "saved"}
LinkSet == {links[i][2] : i \in DOMAIN links}
JointSet == {joints[i][2] : i \in DOMAIN joints}

\* C1: after parse_root_component has completed, the parent and the child
\* of every Joint of the joint map, base_link_joint included, are names of
\* Links of the link map.
C1_JointEndsAreLinks ==
    Built => \A j \in JointSet : j.parent \in Keys(links) /\ j.child \in Keys(links)

\* C2: after a build base_link is the child of no Joint and every other
\* Link is the child of exactly one Joint.
C2_SingleTree ==
    Built =>
        /\ \A j \in JointSet : j.child # BaseLink
        /\ \A n \in Keys(links) \ {BaseLink} :
              Cardinality({i \in DOMAIN joints : joints[i][2].child = n}) = 1

\* the Links made from rigid group g
GroupLinks(g) == {l \in LinkSet : l.kind = "rigid_group" /\ l.id = g}

\* the link names add_joint resolved for occurrenceTwo and occurrenceOne
EndTwo(j) == IF design.joints[j.cad].swap THEN j.child ELSE j.parent
EndOne(j) == IF design.joints[j.cad].swap THEN j.parent ELSE j.child

\* C3: for every rigid group with members the build creates exactly one
\* Link, no Link for a member occurrence, and a joint end that is a member
\* resolves to the name of the group's Link.
C3_RigidGroupMerge ==
    Built =>
        \A g \in DOMAIN design.groups :
            LET members == design.groups[g].members
            IN  /\ Cardinality(GroupLinks(g)) = 1
                /\ \A l \in LinkSet : ~(l.kind = "occurrence" /\ l.id \in members)
                /\ \A j \in JointSet :
                      j.cad # 0 =>
                        /\ design.joints[j.cad].occurrenceTwo \in members =>
                              \E l \in GroupLinks(g) : l.name = EndTwo(j)
                        /\ design.joints[j.cad].occurrenceOne \in members =>
                              \E l \in GroupLinks(g) : l.name = EndOne(j)

\* C4: after every build root_link is base_link and exactly one Joint has
\* base_link as parent; it is fixed, has no pose, and its child is the Link
\* that root selection picked from the root candidates (the only candidate
\* when there is one).
C4_AnchorJoint ==
    Built =>
        /\ root_link = BaseLink
        /\ Cardinality({i \in DOMAIN joints : joints[i][2].parent = BaseLink}) = 1
        /\ \A j \in JointSet :
              j.parent = BaseLink =>
                /\ j.joint_type = "fixed"
                /\ j.pose = Absent
                /\ j.child \in root_links
                /\ j.child \in Keys(links)

\* C5: an entry stored in the link map or the joint map is neither replaced
\* nor removed by a later step of the build.
EntriesKept(before, after) ==
    \A i \in DOMAIN before : i \in DOMAIN after /\ after[i] = before[i]
C5_FirstEntryKept ==
    [][EntriesKept(links, links') /\ EntriesKept(joints, joints')]_vars

\* C6: two builds of the same design select the same root candidate as the
\* child of the anchor joint.
C6_SameRootEachBuild ==
    (Built /\ builds > 1) => Get(joints, BaseLinkJoint).child = prev_root

\* C7: every Joint of a build has parent # child.
C7_ParentIsNotChild ==
    Built => \A j \in JointSet : j.parent # j.child

\* C8: a revolute CAD joint keeps type revolute with (lower, upper) exactly
\* when both limit bounds are enabled, is continuous without limits when no
\* bound is enabled, and has its axis recorded either way.
C8_RevoluteLimits ==
    \A j \in JointSet :
        (j.cad # 0 /\ design.joints[j.cad].motion.jointType = "RevoluteJointType") =>
            LET m == design.joints[j.cad].motion
                has_limits == j.lower_limit # Absent /\ j.upper_limit # Absent
                both == m.isMinimumValueEnabled /\ m.isMaximumValueEnabled
                neither == ~m.isMinimumValueEnabled /\ ~m.isMaximumValueEnabled
            IN  /\ (j.joint_type = "revolute" /\ has_limits) <=> both
                /\ neither => /\ j.joint_type = "continuous"
                              /\ j.lower_limit = Absent
                              /\ j.upper_limit = Absent
                /\ j.axis_xyz # Absent

\* the places of an element in the emitted tree
Places(e) == {i \in DOMAIN out : out[i] = e}
Place(e) == CHOOSE i \in DOMAIN out : out[i] = e

\* C9: to_sdf_string emits the root link first, then every other Link once
\* in creation order, then every Joint once in creation order.
C9_EmissionOrder ==
    pc = "saved" =>
        /\ out # <<>>
        /\ out[1] = Element("link", root_link)
        /\ \A n \in Keys(links) : Cardinality(Places(Element("link", n))) = 1
        /\ \A n \in Keys(joints) : Cardinality(Places(Element("joint", n))) = 1
        /\ Len(out) = Len(links) + Len(joints)
        /\ \A i, k \in DOMAIN out :
              (out[i].tag = "joint" /\ out[k].tag = "link") => k < i
        /\ \A a, b \in DOMAIN links :
              (a < b /\ links[a][1] # root_link /\ links[b][1] # root_link) =>
                  Place(Element("link", links[a][1]))
                      < Place(Element("link", links[b][1]))
        /\ \A a, b \in DOMAIN joints :
              a < b => Place(Element("joint", joints[a][1]))
                           < Place(Element("joint", joints[b][1]))

\* a saved tree of three occurrence links and two CAD joints
C9_Witness ==
    /\ pc = "saved"
    /\ Len(links) = 4
    /\ Len(joints) = 3
    /\ Len(out) = 7

\* C10: Pose.to_sdf_element adds no pose element when all six values are
\* below 1e-6 in absolute value, and otherwise exactly one pose element with
\* the six values, with relative_to exactly when the Pose has a frame tag.
C10_PoseSuppression ==
    pc = "posed" =>
        LET six == this_pose.translation \o this_pose.rotation
            small == \A i \in 1..6 : 0 - Eps < six[i] /\ six[i] < Eps
        IN  IF small
            THEN node = <<>>
            ELSE /\ Len(node) = 1
                 /\ node[1].tag = "pose"
                 /\ node[1].text = six
                 /\ (this_pose.relative_to # NoFrame =>
                        node[1].attrib = << <<"relative_to", this_pose.relative_to>> >>)
                 /\ (this_pose.relative_to = NoFrame => node[1].attrib = <<>>)

\* translation (1e-9, 0, 0), rotation (0, 0, 0): nothing is added
C10_Witness ==
    /\ pc = "posed"
    /\ this_pose.translation = <<1, 0, 0>>
    /\ this_pose.rotation = <<0, 0, 0>>
    /\ node = <<>>

SameAngle(a, b) == a[1] = b[1] /\ a[2] - b[2] <= 10 /\ b[2] - a[2] <= 10

----------------------------------------------------------------------------
(* C11: the inertia stored on a Link is the reported inertia moved to the  *)
(* center of mass: ixx = xx - m(y^2 + z^2), iyy = yy - m(x^2 + z^2),       *)
(* izz = zz - m(x^2 + y^2), ixy = xy + m x y, iyz = yz + m y z and         *)
(* ixz = xz + m x z, with (x, y, z) the center of mass in metres, m the    *)
(* mass and xx .. xz the reported moments in kg m^2; each value is in the  *)
(* LinkInertial field of its own name.                                     *)
C11_ComInertia ==
    (pc = "linked" /\ this_link.occurrence.physical_properties.inertia_valid) =>
        LET pp == this_link.occurrence.physical_properties
            I == this_link.link[1].inertial[1]
            m == pp.mass
            x == cm_to_m(pp.centerOfMass[1])
            y == cm_to_m(pp.centerOfMass[2])
            z == cm_to_m(pp.centerOfMass[3])
            xx == kg_cm2_to_kg_m2(pp.moments[1])
            yy == kg_cm2_to_kg_m2(pp.moments[2])
            zz == kg_cm2_to_kg_m2(pp.moments[3])
            xy == kg_cm2_to_kg_m2(pp.moments[4])
            yz == kg_cm2_to_kg_m2(pp.moments[5])
            xz == kg_cm2_to_kg_m2(pp.moments[6])
        IN  /\ I.ixx = xx - FloatMul(m, FloatMul(y, y) + FloatMul(z, z))
            /\ I.iyy = yy - FloatMul(m, FloatMul(x, x) + FloatMul(z, z))
            /\ I.izz = zz - FloatMul(m, FloatMul(x, x) + FloatMul(y, y))
            /\ I.ixy = xy + FloatMul(m, FloatMul(x, y))
            /\ I.iyz = yz + FloatMul(m, FloatMul(y, z))
            /\ I.ixz = xz + FloatMul(m, FloatMul(x, z))

\* mass 2, center of mass one centimetre along x, moments diag(1, 1, 1)
\* kg cm^2: ixx = 1e-4, iyy = izz = -1e-4, the products are 0
C11_Witness ==
    /\ pc = "linked"
    /\ this_link.occurrence.physical_properties =
          [centerOfMass |-> <<1000000000, 0, 0>>, mass |-> 2000000000,
           inertia_valid |-> TRUE,
           moments |-> <<1000000000, 1000000000, 1000000000, 0, 0, 0>>]
    /\ LET I == this_link.link[1].inertial[1]
       IN  <<I.ixx, I.iyy, I.izz, I.ixy, I.iyz, I.ixz>> =
              <<100000, 0 - 100000, 0 - 100000, 0, 0, 0>>

\* a center of mass off two axes, where the products of inertia change
C11_WitnessProducts ==
    /\ pc = "linked"
    /\ this_link.occurrence.physical_properties.inertia_valid
    /\ this_link.occurrence.physical_properties.centerOfMass[1] # 0
    /\ this_link.occurrence.physical_properties.centerOfMass[2] # 0

\* C12: with invalid mass properties the Link is still made, and its
\* inertial data is the placeholder: mass 1 and the unit inertia
\* (ixx = iyy = izz = 1, ixy = ixz = iyz = 0).
C12_Placeholder ==
    (pc = "linked" /\ ~this_link.occurrence.physical_properties.inertia_valid) =>
        /\ this_link.link # Absent
        /\ LET I == this_link.link[1].inertial[1]
           IN  /\ I.mass = 1000000000
               /\ <<I.ixx, I.iyy, I.izz, I.ixy, I.iyz, I.ixz>> =
                     <<1000000000, 1000000000, 1000000000, 0, 0, 0>>

\* the elements of a list
Range(s) == {s[i] : i \in DOMAIN s}

\* the inertial elements of the links of the emitted tree
InertialElements ==
    {e \in UNION {Range(l.children) : l \in {l \in Range(node) : l.tag = "link"}} :
        e.tag = "inertial"}

\* C16: no pose element of an inertial element carries relative_to, for
\* the Link of an occurrence and for the anchor link alike.
C16_InertialPoseUntagged ==
    pc \in {"emitted", "anchor_emitted"} =>
        \A e \in InertialElements :
            \A c \in Range(e.children) : c.tag = "pose" => c.attrib = <<>>

\* an occurrence link whose inertial element has a pose element
C16_Witness ==
    /\ pc = "emitted"
    /\ this_link.rigid_group_pose = Absent
    /\ \E e \in InertialElements : \E c \in Range(e.children) : c.tag = "pose"

\* the anchor link: its inertial pose has the default frame tag and adds
\* no pose element at all
C16_WitnessAnchor ==
    /\ pc = "anchor_emitted"
    /\ this_link.link[1].inertial[1].pose.relative_to = ModelFrame
    /\ InertialElements # {}
    /\ \A e \in InertialElements : \A c \in Range(e.children) : c.tag # "pose"

\* C20: a Link holds exactly one Visual and one Collision for each body of
\* its occurrence, whatever the bodies are named.
C20_OnePerBody ==
    pc = "linked" =>
        /\ Len(this_link.link[1].visuals) = Len(this_link.occurrence.bRepBodies)
        /\ Len(this_link.link[1].collisions) = Len(this_link.occurrence.bRepBodies)

\* a name of the SDF model: not empty, over a-z, 0-9 and the underscore,
\* with no underscore first or last
NormalName(name) ==
    /\ name # <<>>
    /\ \A i \in DOMAIN name : name[i] \in Kept
    /\ name[1] # "_"
    /\ name[Len(name)] # "_"

\* C15: the name of every Link and of every Joint is a non-empty string
\* over [a-z0-9_] that neither starts nor ends with an underscore, whatever
\* the names in the CAD design are.
C15_NormalNames ==
    /\ \A i \in DOMAIN links : NormalName(links[i][1]) /\ NormalName(links[i][2].name)
    /\ \A i \in DOMAIN joints : NormalName(joints[i][1]) /\ NormalName(joints[i][2].name)

\* C17: parse_occurrence of an occurrence that a rigid group has claimed
\* makes no Link and visits none of the occurrence's children.
C17_MemberNotParsed ==
    [][(/\ Building("occurrence")
        /\ design.occ[Head(todo).id].name \in Keys(occurrences_in_rigid_groups))
       => /\ links' = links
          /\ \A i \in DOMAIN todo' :
                ~(/\ todo'[i].op = "occurrence"
                  /\ design.occ[todo'[i].id].parent = Head(todo).id)]_vars

C19_GroupsBeforeOccurrences ==
    Building("occurrence") =>
        LET p == design.occ[Head(todo).id].parent
        IN  /\ \A i \in DOMAIN todo :
                  ~(todo[i].op = "rigid_group" /\ design.groups[todo[i].id].owner = p)
            /\ \A g \in DOMAIN design.groups :
                  design.groups[g].owner = p =>
                      \A m \in design.groups[g].members :
                          design.occ[m].name \in Keys(occurrences_in_rigid_groups)

\* an occurrence of the root component is visited, which has a rigid group
C19_Witness ==
    /\ Building("occurrence")
    /\ design.occ[Head(todo).id].parent = 0
    /\ \E g \in DOMAIN design.groups : design.groups[g].owner = 0

\* an occurrence of a component below the root, which has a rigid group
C19_WitnessNested ==
    /\ Building("occurrence")
    /\ design.occ[Head(todo).id].parent = 1
    /\ \E g \in DOMAIN design.groups : design.groups[g].owner = 1

\* the Links made from occurrence o
OwnLinks(o) ==
    {links[i][2] : i \in {i \in DOMAIN links :
                            links[i][2].kind = "occurrence" /\ links[i][2].id = o}}

\* occurrence o is a member of no rigid group of the design
InNoRigidGroup(o) == \A g \in DOMAIN design.groups : o \notin design.groups[g].members

\* C21: an end of a joint that is an occurrence in no rigid group, for which
\* a Link was made, is resolved to the name of that Link, also when the
\* component of the occurrence declares rigid groups.
C21_OwnLinkName ==
    \A i \in DOMAIN joints :
        LET joint == joints[i][2]
        IN  joint.cad # 0 =>
              LET fj == design.joints[joint.cad]
              IN  /\ \A l \in OwnLinks(fj.occurrenceOne) :
                        InNoRigidGroup(fj.occurrenceOne) => joint.child = l.name
                  /\ \A l \in OwnLinks(fj.occurrenceTwo) :
                        InNoRigidGroup(fj.occurrenceTwo) => joint.parent = l.name

====
